---------------------------- MODULE Spec2Model ----------------------------
(***************************************************************************)
(* A model of ssb.py, the spanning backup: Storage.backup_file (the        *)
(* two-phase copy with its out-of-space handling), BackupLog (the run      *)
(* log) and the backup command (walk, rotation, operator prompt, resume).  *)
(*                                                                         *)
(* Sizes and capacities are counted in chunks (one os.read/os.write of the *)
(* copy loop).  A volume whose free space is 0 chunks has less than one    *)
(* chunk left: a catalog write on it may or may not hit sqlite's           *)
(* "database or disk is full", and creating a directory or file on it may  *)
(* or may not hit ENOSPC.  The process can be killed between any two       *)
(* steps; everything on the volumes and in the run log survives a kill.    *)
(***************************************************************************)
EXTENDS Integers, Sequences, FiniteSets

\* ---------------------------------------------------------------- bounds
NFiles == 2
NVols == 2
MaxSize == 2
MaxCap == 2
MaxRuns == 2
MaxSupply == 1

Files == 1..NFiles
Vols == 1..NVols

\* The hash of a phase-1 row: '0'*64.  A digest is <<file, bytes read>>.
Sentinel == <<0, 0>>
Digest(f, n) == <<f, n>>

\* PathMapper: op.join(self.root, hostname, fpath[1:]) -- one destination
\* per (volume root, source path); the host is fixed.
DstPath(v, f) == <<v, f>>

VARIABLES
  srcSize,      \* [Files -> 1..MaxSize]: os.stat(fpath).st_size
  cap,          \* [Vols -> 1..MaxCap]: the chunks a volume holds
  dst,          \* [Vols -> [Files -> [exists, size]]]: the destination files
  catalog,      \* [Vols -> Seq(Storage row)]: the ssb-storage-*.sqlite
                \* files in the volume's root, each with its Storage row
  bksets,       \* [Vols -> Seq(BackupSet row)], in id order
  fts,          \* [Vols -> Seq(FileTransaction row)], in id order
  log,          \* the run log: [uuid, backup_set_uuid, entries]
  nUuid,        \* the BackupSet lineages created so far (uuid4 is fresh)
  runs,         \* the invocations of `backup` so far
  pc,           \* where the running process is; "idle" when there is none
  outcome,      \* how the last run ended
  storages,     \* the queue of volumes still to use
  cur_storage,  \* the volume whose catalog is bound; 0 is None
  dbOpen,       \* the volume whose catalog STORAGE_DB has open; 0 is none
  cur_bk_set,   \* the BackupSet object in memory
  walk,         \* the source paths os.walk yields in this run
  idx,          \* the position of the for-loop in walk
  fpath,        \* backup_file's argument; 0 outside the while loop
  tf,           \* backup_file's tf: a row position in fts, 0 is None
  written,      \* chunks copied so far by the copy loop
  outofspace,   \* backup_file's outofspace
  raised,       \* the exception backup_file's finally-return discarded
  supplied,     \* the volumes the operator gave at the prompt in this run
  scen          \* history: the first file of this run met on a first
                \* volume too full for it, with a second one it fits on

persistent == <<srcSize, cap, dst, catalog, bksets, fts, log, nUuid, runs>>
process == <<pc, outcome, storages, cur_storage, dbOpen, cur_bk_set, walk,
             idx, fpath, tf, written, outofspace, raised, supplied, scen>>
vars == <<persistent, process>>

\* ------------------------------------------------------------- helpers
NoFile == [exists |-> FALSE, size |-> 0]
NoBkSet == [id |-> 0, uuid |-> 0, sequence_number |-> 0, is_final |-> FALSE]
NoScen == [file |-> 0, from |-> 0, to |-> 0]
NoLog == [uuid |-> 0, backup_set_uuid |-> 0, entries |-> <<>>]

RECURSIVE SumSizes(_, _)
SumSizes(v, S) ==
  IF S = {} THEN 0
  ELSE LET f == CHOOSE x \in S : TRUE
       IN  dst[v][f].size + SumSizes(v, S \ {f})

\* The chunks left on volume v.
Free(v) == cap[v] - SumSizes(v, Files)

\* sqlite's "database or disk is full" / ENOSPC on a create can strike only
\* on a volume with less than one chunk left.
MayBeFull(v) == Free(v) = 0

Max(a, b) == IF a >= b THEN a ELSE b

RemoveAt(s, i) == [j \in 1..(Len(s) - 1) |-> IF j < i THEN s[j] ELSE s[j + 1]]

\* is_same_size(fpath, dst), once dst is known to exist
is_same_size(v, f) == dst[v][f].size = srcSize[f]

\* FileTransaction.get(dest_path=dst): sqlite answers from the dest_path
\* index, the row with the lowest id; 0 when there is none (DoesNotExist).
FirstRow(v, f) ==
  LET m == {i \in 1..Len(fts[v]) : fts[v][i].dest_path = DstPath(v, f)}
  IN  IF m = {} THEN 0 ELSE CHOOSE i \in m : \A j \in m : i <= j

\* BackupSet.get(uuid=...): the first row of the table scan; 0 when none.
FirstBkSet(v, u) ==
  LET m == {i \in 1..Len(bksets[v]) : bksets[v][i].uuid = u}
  IN  IF m = {} THEN 0 ELSE CHOOSE i \in m : \A j \in m : i <= j

\* BackupLogEntry.select().filter(source_path=fpath_abs).exists()
has_entry(f) == \E i \in 1..Len(log.entries) : log.entries[i].source_path = f

\* The row record_transaction(src, dst, sha256hash, bk_set) saves.
record_transaction(v, f, h, bk) ==
  [source_path |-> f, dest_path |-> DstPath(v, f), size |-> srcSize[f],
   sha256hash |-> h, backup_set |-> bk.id]

\* The entry BackupLog.log(file_transaction, storage) saves.  A volume has
\* one Storage row, made once: its uuid is written as the volume, v.
LogEntry(row, v) ==
  [source_path |-> row.source_path, dest_path |-> row.dest_path,
   size |-> row.size, sha256hash |-> row.sha256hash, storage_uuid |-> v]

\* A volume is mounted at its usual path v or, another time, at v + NVols.
PathsOf(v) == {v, v + NVols}
VolAt(dirpath) == IF dirpath > NVols THEN dirpath - NVols ELSE dirpath

\* Storage.init without the test of create_new: the tables and a Storage
\* row are made anew every time.
Storage_init_anew(c, dirpath, reuse, exists) ==
  IF c # <<>> /\ ~reuse
  THEN [raised |-> "Storage already initialised", catalog |-> c]
  ELSE IF c = <<>> /\ exists
  THEN [raised |-> "Storage not found", catalog |-> c]
  ELSE [raised |-> "none",
        catalog |-> Append(c, [uuid |-> <<VolAt(dirpath), Len(c) + 1>>,
                               root |-> dirpath])]

\* Storage.init(dirpath, reuse, exists), lines 169-211, on a root whose
\* catalog files are c: what it raises and the catalog files it leaves.
\* uuid4() gives a value no other call gives: <<the volume, the serial of
\* the catalog on it>>.  Of several catalog files the one listed last is
\* opened, and its Storage row (id 1) gets root = dirpath.
Storage_init(c, dirpath, reuse, exists) ==
  IF c # <<>> /\ ~reuse
  THEN [raised |-> "Storage already initialised", catalog |-> c]
  ELSE IF c = <<>> /\ exists
  THEN [raised |-> "Storage not found", catalog |-> c]
  ELSE IF c = <<>>
  THEN [raised |-> "none",
        catalog |-> <<[uuid |-> <<VolAt(dirpath), 1>>, root |-> dirpath]>>]
  ELSE [raised |-> "none",
        catalog |-> [c EXCEPT ![Len(c)].root = dirpath]]

\* The volume lists a run can be started with.
VolLists ==
  {<<v>> : v \in Vols} \cup {s \in Vols \X Vols : s[1] # s[2]}

\* What os.walk yields over the backup_dirs: every file in order, and the
\* first once more (two roots that overlap).
Walks == {Append([i \in 1..NFiles |-> i], 1)}

\* ---------------------------------------------------------------- Init
Init ==
  /\ srcSize \in [Files -> 1..MaxSize]
  /\ cap \in [Vols -> 1..MaxCap]
  /\ \A v \in Vols, w \in Vols : v <= w => cap[v] <= cap[w]
  /\ dst = [v \in Vols |-> [f \in Files |-> NoFile]]
  /\ catalog = [v \in Vols |-> <<>>]
  /\ bksets = [v \in Vols |-> <<>>]
  /\ fts = [v \in Vols |-> <<>>]
  /\ log = NoLog
  /\ nUuid = 0
  /\ runs = 0
  /\ pc = "idle"
  /\ outcome = "none"
  /\ storages = <<>>
  /\ cur_storage = 0
  /\ dbOpen = 0
  /\ cur_bk_set = NoBkSet
  /\ walk = <<>>
  /\ idx = 0
  /\ fpath = 0
  /\ tf = 0
  /\ written = 0
  /\ outofspace = FALSE
  /\ raised = "none"
  /\ supplied = 0
  /\ scen = NoScen

\* The process is gone: its memory is gone, the stores are as they were.
Exit(how) ==
  /\ pc' = "idle"
  /\ outcome' = how
  /\ storages' = <<>>
  /\ cur_storage' = 0
  /\ dbOpen' = 0
  /\ cur_bk_set' = NoBkSet
  /\ walk' = <<>>
  /\ idx' = 0
  /\ fpath' = 0
  /\ tf' = 0
  /\ written' = 0
  /\ outofspace' = FALSE
  /\ raised' = "none"
  /\ supplied' = 0
  /\ scen' = NoScen

\* ------------------------------------------------------- backup: start
\* backup(), lines 376-424, run to the top of the walk: the log is created
\* or loaded, get_next_storage() binds the first volume (Storage.init makes
\* its catalog when there is none), and the BackupSet is loaded by the
\* log's backup_set_uuid or created with sequence_number 0.
NewLog == [uuid |-> 1, backup_set_uuid |-> 0, entries |-> <<>>]

Enter(vols, w) ==
  /\ pc' = "walk"
  /\ outcome' = "none"
  /\ storages' = Tail(vols)
  /\ cur_storage' = vols[1]
  /\ dbOpen' = vols[1]
  /\ walk' = w
  /\ idx' = 1
  /\ fpath' = 0
  /\ tf' = 0
  /\ written' = 0
  /\ outofspace' = FALSE
  /\ raised' = "none"
  /\ supplied' = 0
  /\ scen' = NoScen

\* The first run: BackupLog.new(), and a BackupSet of a new lineage.  (A
\* later run is given --resume-using with this log.)
StartNew(vols, w) ==
  LET v == vols[1]
      row == [uuid |-> nUuid + 1, sequence_number |-> 0, is_final |-> FALSE]
  IN  /\ pc = "idle"
      /\ runs < MaxRuns
      /\ log.uuid = 0
      /\ runs' = runs + 1
      /\ catalog' = [catalog EXCEPT ![v] = Storage_init(@, v, TRUE, FALSE).catalog]
      /\ bksets' = [bksets EXCEPT ![v] = Append(@, row)]
      /\ nUuid' = nUuid + 1
      /\ log' = [NewLog EXCEPT !.backup_set_uuid = nUuid + 1]
      /\ cur_bk_set' = [id |-> Len(bksets[v]) + 1, uuid |-> nUuid + 1,
                        sequence_number |-> 0, is_final |-> FALSE]
      /\ Enter(vols, w)
      /\ UNCHANGED <<srcSize, cap, dst, fts>>

StartResume(vols, w) ==
  LET v == vols[1]
      i == FirstBkSet(v, log.backup_set_uuid)
  IN  /\ pc = "idle"
      /\ runs < MaxRuns
      /\ log.uuid # 0
      /\ log.backup_set_uuid # 0
      /\ i # 0
      /\ runs' = runs + 1
      /\ catalog' = [catalog EXCEPT ![v] = Storage_init(@, v, TRUE, FALSE).catalog]
      /\ cur_bk_set' = [id |-> i, uuid |-> bksets[v][i].uuid,
                        sequence_number |-> bksets[v][i].sequence_number,
                        is_final |-> bksets[v][i].is_final]
      /\ Enter(vols, w)
      /\ UNCHANGED <<srcSize, cap, dst, bksets, fts, log, nUuid>>

\* BackupSet.get(uuid=backup_log.backup_set_uuid) finds no row in the first
\* volume's catalog: DoesNotExist leaves backup().
StartNotFound(vols) ==
  LET v == vols[1]
  IN  /\ pc = "idle"
      /\ runs < MaxRuns
      /\ log.uuid # 0
      /\ log.backup_set_uuid # 0
      /\ FirstBkSet(v, log.backup_set_uuid) = 0
      /\ runs' = runs + 1
      /\ catalog' = [catalog EXCEPT ![v] = Storage_init(@, v, TRUE, FALSE).catalog]
      /\ Exit("DoesNotExist")
      /\ UNCHANGED <<srcSize, cap, dst, bksets, fts, log, nUuid>>

\* storage.save() in Storage.init meets a full volume: nothing around it
\* catches the OperationalError.
StartDbFull(vols) ==
  LET v == vols[1]
  IN  /\ pc = "idle"
      /\ runs < MaxRuns
      /\ log.uuid # 0
      /\ catalog[v] # <<>>
      /\ MayBeFull(v)
      /\ runs' = runs + 1
      /\ Exit("OperationalError")
      /\ UNCHANGED <<srcSize, cap, dst, catalog, bksets, fts, log, nUuid>>

\* ---------------------------------------------------- backup: the walk
\* Lines 426-434: the next path of the walk is in the log, and is skipped.
WalkSkip ==
  /\ pc = "walk"
  /\ idx <= Len(walk)
  /\ has_entry(walk[idx])
  /\ idx' = idx + 1
  /\ UNCHANGED <<persistent, pc, outcome, storages, cur_storage, dbOpen,
                 cur_bk_set, walk, fpath, tf, written, outofspace, raised,
                 supplied, scen>>

\* Volume v holds nothing of file f: no destination, no row.
NoTrace(v, f) ==
  /\ ~dst[v][f].exists
  /\ \A i \in 1..Len(fts[v]) : fts[v][i].source_path # f

\* The run is on the first of two volumes, f does not fit in what is left
\* of it, and fits on the second.
RotationCase(f) ==
  /\ Len(storages) = 1
  /\ supplied = 0
  /\ NoTrace(cur_storage, f)
  /\ NoTrace(Head(storages), f)
  /\ Free(cur_storage) < srcSize[f]
  /\ srcSize[f] <= Free(Head(storages))

\* WalkPick without the membership test of line 433.
WalkPickUnchecked ==
  /\ pc = "walk"
  /\ idx <= Len(walk)
  /\ fpath' = walk[idx]
  /\ pc' = "call"
  /\ UNCHANGED <<persistent, outcome, storages, cur_storage, dbOpen,
                 cur_bk_set, walk, idx, tf, written, outofspace, raised,
                 supplied, scen>>

\* Lines 435-438: it is not, and the while loop is entered with it.
WalkPick ==
  /\ pc = "walk"
  /\ idx <= Len(walk)
  /\ ~has_entry(walk[idx])
  /\ fpath' = walk[idx]
  /\ pc' = "call"
  /\ scen' = IF scen = NoScen /\ RotationCase(walk[idx])
             THEN [file |-> walk[idx], from |-> cur_storage,
                   to |-> Head(storages)]
             ELSE scen
  /\ UNCHANGED <<persistent, outcome, storages, cur_storage, dbOpen,
                 cur_bk_set, walk, idx, tf, written, outofspace, raised,
                 supplied>>

\* Lines 468-470: the walk is over; the BackupSet in memory is saved with
\* is_final set, into the row of its id in the open catalog.
Complete ==
  /\ pc = "walk"
  /\ idx > Len(walk)
  /\ bksets' = [bksets EXCEPT ![cur_storage][cur_bk_set.id] =
                  [uuid |-> cur_bk_set.uuid,
                   sequence_number |-> cur_bk_set.sequence_number,
                   is_final |-> TRUE]]
  /\ Exit("completed")
  /\ UNCHANGED <<srcSize, cap, dst, catalog, fts, log, nUuid, runs>>

CompleteDbFull ==
  /\ pc = "walk"
  /\ idx > Len(walk)
  /\ MayBeFull(cur_storage)
  /\ Exit("OperationalError")
  /\ UNCHANGED persistent

\* ------------------------------------------------ Storage.backup_file
\* What the finally block does when outofspace is set and both of its
\* statements succeed: os.unlink(dst), FileTransaction.delete_instance(tf).
Cleanup(v, f, row) ==
  /\ dst' = [dst EXCEPT ![v][f] = NoFile]
  /\ fts' = [fts EXCEPT ![v] = RemoveAt(@, row)]

\* `return tf, outofspace` in the finally block: whatever was being raised
\* is dropped, and the caller gets the pair.
Return(t, oos, exc) ==
  /\ pc' = "ret"
  /\ tf' = t
  /\ outofspace' = oos
  /\ raised' = exc
  /\ written' = 0

\* Line 253 true: the destination is there with the source's size.  The
\* first row for it lends its hash to a new row (lines 257-259).
backup_file_exists ==
  LET v == cur_storage
      f == fpath
      prior == FirstRow(v, f)
  IN  /\ pc = "call"
      /\ dst[v][f].exists /\ is_same_size(v, f)
      /\ IF prior = 0
         THEN /\ Return(0, FALSE, "DoesNotExist")
              /\ UNCHANGED fts
         ELSE /\ fts' = [fts EXCEPT ![v] = Append(@,
                    record_transaction(v, f, fts[v][prior].sha256hash,
                                       cur_bk_set))]
              /\ Return(Len(fts[v]) + 1, FALSE, "none")
      /\ UNCHANGED <<srcSize, cap, dst, catalog, bksets, log, nUuid, runs,
                     outcome, storages, cur_storage, dbOpen, cur_bk_set,
                     walk, idx, fpath, supplied, scen>>

\* The same, with ft.save() of line 259 raising "database or disk is
\* full": tf is still the row FileTransaction.get returned, and the
\* finally block unlinks the destination and deletes that row.
backup_file_exists_dbfull ==
  LET v == cur_storage
      f == fpath
      prior == FirstRow(v, f)
  IN  /\ pc = "call"
      /\ dst[v][f].exists /\ is_same_size(v, f)
      /\ prior # 0
      /\ MayBeFull(v)
      /\ Cleanup(v, f, prior)
      /\ Return(0, TRUE, "none")
      /\ UNCHANGED <<srcSize, cap, catalog, bksets, log, nUuid, runs,
                     outcome, storages, cur_storage, dbOpen, cur_bk_set,
                     walk, idx, fpath, supplied, scen>>

\* os.stat(src) fails (the path os.walk gave is a broken link, or the file
\* is gone): an OSError whose errno is not 28, before any row exists.
backup_file_stat_error ==
  /\ pc = "call"
  /\ Return(0, FALSE, "OSError")
  /\ UNCHANGED <<persistent, outcome, storages, cur_storage, dbOpen,
                 cur_bk_set, walk, idx, fpath, supplied, scen>>

\* Line 264, phase 1: the row with the sentinel hash.
backup_file_phase1 ==
  LET v == cur_storage
      f == fpath
  IN  /\ pc = "call"
      /\ ~(dst[v][f].exists /\ is_same_size(v, f))
      /\ fts' = [fts EXCEPT ![v] = Append(@,
                    record_transaction(v, f, Sentinel, cur_bk_set))]
      /\ tf' = Len(fts[v]) + 1
      /\ pc' = "open"
      /\ UNCHANGED <<srcSize, cap, dst, catalog, bksets, log, nUuid, runs,
                     outcome, storages, cur_storage, dbOpen, cur_bk_set,
                     walk, idx, fpath, written, outofspace, raised,
                     supplied, scen>>

\* Line 264 raising "database or disk is full": outofspace is set and tf
\* is None.  In the finally block os.unlink(dst) raises FileNotFoundError
\* when there is no destination; when there is one (of another size) it is
\* removed, and delete_instance(None) raises.  Either leaves backup_file.
backup_file_phase1_dbfull ==
  LET v == cur_storage
      f == fpath
  IN  /\ pc = "call"
      /\ ~(dst[v][f].exists /\ is_same_size(v, f))
      /\ MayBeFull(v)
      /\ dst' = [dst EXCEPT ![v][f] = NoFile]
      /\ Exit(IF dst[v][f].exists THEN "AttributeError"
              ELSE "FileNotFoundError")
      /\ UNCHANGED <<srcSize, cap, catalog, bksets, fts, log, nUuid, runs>>

\* Lines 266-270: makedirs, the source opened, the destination opened
\* O_WRONLY | O_CREAT -- created empty when absent, kept as it is (not
\* truncated) when present.
backup_file_open ==
  LET v == cur_storage
      f == fpath
  IN  /\ pc = "open"
      /\ dst' = [dst EXCEPT ![v][f] =
                   [exists |-> TRUE, size |-> dst[v][f].size]]
      /\ written' = 0
      /\ pc' = "copy"
      /\ UNCHANGED <<srcSize, cap, catalog, bksets, fts, log, nUuid, runs,
                     outcome, storages, cur_storage, dbOpen, cur_bk_set,
                     walk, idx, fpath, tf, outofspace, raised, supplied, scen>>

\* One of them raises an OSError other than ENOSPC (the source cannot be
\* read, say): `raise ex` of line 294, dropped by the finally-return.
backup_file_open_error ==
  /\ pc = "open"
  /\ Return(tf, FALSE, "OSError")
  /\ UNCHANGED <<persistent, outcome, storages, cur_storage, dbOpen,
                 cur_bk_set, walk, idx, fpath, supplied, scen>>

\* makedirs or the creating open raises ENOSPC: outofspace is set, and
\* os.unlink(dst) in the finally block raises FileNotFoundError before the
\* row is deleted.
backup_file_open_nospace ==
  LET v == cur_storage
      f == fpath
  IN  /\ pc = "open"
      /\ ~dst[v][f].exists
      /\ MayBeFull(v)
      /\ Exit("FileNotFoundError")
      /\ UNCHANGED persistent

\* Lines 273-279: one chunk read and written at offset `written`.
backup_file_copy ==
  LET v == cur_storage
      f == fpath
      size == Max(dst[v][f].size, written + 1)
  IN  /\ pc = "copy"
      /\ written < srcSize[f]
      /\ size - dst[v][f].size <= Free(v)
      /\ dst' = [dst EXCEPT ![v][f].size = size]
      /\ written' = written + 1
      /\ UNCHANGED <<srcSize, cap, catalog, bksets, fts, log, nUuid, runs,
                     pc, outcome, storages, cur_storage, dbOpen, cur_bk_set,
                     walk, idx, fpath, tf, outofspace, raised, supplied, scen>>

\* os.write raises ENOSPC: lines 287-291, then the finally block unlinks
\* the partial destination and deletes the phase-1 row.
backup_file_copy_nospace ==
  LET v == cur_storage
      f == fpath
      size == Max(dst[v][f].size, written + 1)
  IN  /\ pc = "copy"
      /\ written < srcSize[f]
      /\ size - dst[v][f].size > Free(v)
      /\ Cleanup(v, f, tf)
      /\ Return(0, TRUE, "none")
      /\ UNCHANGED <<srcSize, cap, catalog, bksets, log, nUuid, runs,
                     outcome, storages, cur_storage, dbOpen, cur_bk_set,
                     walk, idx, fpath, supplied, scen>>

\* os.read or os.write raises another OSError (EIO).
backup_file_copy_error ==
  /\ pc = "copy"
  /\ written < srcSize[fpath]
  /\ Return(tf, FALSE, "OSError")
  /\ UNCHANGED <<persistent, outcome, storages, cur_storage, dbOpen,
                 cur_bk_set, walk, idx, fpath, supplied, scen>>

\* Lines 280-285 and 306: end of file; phase 2 saves the digest, and the
\* else clause asserts is_same_size -- an AssertionError the finally-return
\* drops like the others.
backup_file_phase2 ==
  LET v == cur_storage
      f == fpath
  IN  /\ pc = "copy"
      /\ written = srcSize[f]
      /\ fts' = [fts EXCEPT ![v][tf].sha256hash = Digest(f, written)]
      /\ Return(tf, FALSE,
                IF is_same_size(v, f) THEN "none" ELSE "AssertionError")
      /\ UNCHANGED <<srcSize, cap, dst, catalog, bksets, log, nUuid, runs,
                     outcome, storages, cur_storage, dbOpen, cur_bk_set,
                     walk, idx, fpath, supplied, scen>>

\* tf.save() of line 285 raising "database or disk is full".
backup_file_phase2_dbfull ==
  LET v == cur_storage
      f == fpath
  IN  /\ pc = "copy"
      /\ written = srcSize[f]
      /\ MayBeFull(v)
      /\ Cleanup(v, f, tf)
      /\ Return(0, TRUE, "none")
      /\ UNCHANGED <<srcSize, cap, catalog, bksets, log, nUuid, runs,
                     outcome, storages, cur_storage, dbOpen, cur_bk_set,
                     walk, idx, fpath, supplied, scen>>

backup_file ==
  \/ backup_file_exists
  \/ backup_file_exists_dbfull
  \/ backup_file_stat_error
  \/ backup_file_phase1
  \/ backup_file_phase1_dbfull
  \/ backup_file_open
  \/ backup_file_open_error
  \/ backup_file_open_nospace
  \/ backup_file_copy
  \/ backup_file_copy_nospace
  \/ backup_file_copy_error
  \/ backup_file_phase2
  \/ backup_file_phase2_dbfull

\* --------------------------------------------- backup: the while loop
\* Lines 440-443 without cur_storage.disconnect().
ReturnOutOfSpaceConnected ==
  /\ pc = "ret"
  /\ outofspace
  /\ cur_storage' = 0
  /\ outofspace' = FALSE
  /\ pc' = "rotate"
  /\ UNCHANGED <<persistent, outcome, storages, dbOpen, cur_bk_set, walk,
                 idx, fpath, tf, written, raised, supplied, scen>>

\* Lines 440-443: out of space; the volume is disconnected and dropped.
ReturnOutOfSpace ==
  /\ pc = "ret"
  /\ outofspace
  /\ cur_storage' = 0
  /\ dbOpen' = 0
  /\ outofspace' = FALSE
  /\ pc' = "rotate"
  /\ UNCHANGED <<persistent, outcome, storages, cur_bk_set, walk, idx,
                 fpath, tf, written, raised, supplied, scen>>

\* Lines 462-465: not out of space and a transaction came back; it is
\* logged and the for-loop moves on.
ReturnLogged ==
  /\ pc = "ret"
  /\ ~outofspace
  /\ tf # 0
  /\ log' = [log EXCEPT !.entries =
               Append(@, LogEntry(fts[cur_storage][tf], cur_storage))]
  /\ idx' = idx + 1
  /\ fpath' = 0
  /\ tf' = 0
  /\ raised' = "none"
  /\ pc' = "walk"
  /\ UNCHANGED <<srcSize, cap, dst, catalog, bksets, fts, nUuid, runs,
                 outcome, storages, cur_storage, dbOpen, cur_bk_set, walk,
                 written, outofspace, supplied, scen>>

\* Line 463: neither; the assert fails and leaves backup().
ReturnNothing ==
  /\ pc = "ret"
  /\ ~outofspace
  /\ tf = 0
  /\ Exit("AssertionError")
  /\ UNCHANGED persistent

\* get_next_storage followed by `done = True`: the rotation ends the while
\* loop, and the walk goes on with the next path.
get_next_storage_done ==
  LET v == Head(storages)
      row == [uuid |-> cur_bk_set.uuid,
              sequence_number |-> cur_bk_set.sequence_number + 1,
              is_final |-> cur_bk_set.is_final]
  IN  /\ pc = "rotate"
      /\ storages # <<>>
      /\ storages' = Tail(storages)
      /\ catalog' = [catalog EXCEPT ![v] = Storage_init(@, v, TRUE, FALSE).catalog]
      /\ bksets' = [bksets EXCEPT ![v] = Append(@, row)]
      /\ cur_bk_set' = [id |-> Len(bksets[v]) + 1, uuid |-> row.uuid,
                        sequence_number |-> row.sequence_number,
                        is_final |-> row.is_final]
      /\ cur_storage' = v
      /\ dbOpen' = v
      /\ pc' = "walk"
      /\ idx' = idx + 1
      /\ fpath' = 0
      /\ UNCHANGED <<srcSize, cap, dst, fts, log, nUuid, runs, outcome,
                     walk, tf, written, outofspace, raised, supplied, scen>>

\* get_next_storage(cur_bk_set), lines 386-400, with a volume queued:
\* Storage.init binds it, and a copy of the BackupSet in memory is saved
\* as a new row of its catalog with sequence_number + 1.
get_next_storage ==
  LET v == Head(storages)
      row == [uuid |-> cur_bk_set.uuid,
              sequence_number |-> cur_bk_set.sequence_number + 1,
              is_final |-> cur_bk_set.is_final]
  IN  /\ pc = "rotate"
      /\ storages # <<>>
      /\ storages' = Tail(storages)
      /\ catalog' = [catalog EXCEPT ![v] = Storage_init(@, v, TRUE, FALSE).catalog]
      /\ bksets' = [bksets EXCEPT ![v] = Append(@, row)]
      /\ cur_bk_set' = [id |-> Len(bksets[v]) + 1, uuid |-> row.uuid,
                        sequence_number |-> row.sequence_number,
                        is_final |-> row.is_final]
      /\ cur_storage' = v
      /\ dbOpen' = v
      /\ pc' = "call"
      /\ UNCHANGED <<srcSize, cap, dst, fts, log, nUuid, runs, outcome,
                     walk, idx, fpath, tf, written, outofspace, raised,
                     supplied, scen>>

\* storage.save() of Storage.init or new_bk_set.save() raising "database
\* or disk is full" on a volume that is full itself: nothing catches it.
get_next_storage_dbfull ==
  LET v == Head(storages)
  IN  /\ pc = "rotate"
      /\ storages # <<>>
      /\ catalog[v] # <<>>
      /\ MayBeFull(v)
      /\ Exit("OperationalError")
      /\ UNCHANGED persistent

\* get_next_storage with the queue empty: (None, None), and the prompt.
get_next_storage_none ==
  /\ pc = "rotate"
  /\ storages = <<>>
  /\ pc' = "prompt"
  /\ UNCHANGED <<persistent, outcome, storages, cur_storage, dbOpen,
                 cur_bk_set, walk, idx, fpath, tf, written, outofspace,
                 raised, supplied, scen>>

\* Lines 452-456: the operator answers STOP.
PromptStop ==
  /\ pc = "prompt"
  /\ Exit("suspended")
  /\ UNCHANGED persistent

\* Lines 457-458: the operator names a directory, which is queued.
PromptStorage(v) ==
  /\ pc = "prompt"
  /\ supplied < MaxSupply
  /\ storages' = Append(storages, v)
  /\ supplied' = supplied + 1
  /\ pc' = "rotate"
  /\ UNCHANGED <<persistent, outcome, cur_storage, dbOpen, cur_bk_set,
                 walk, idx, fpath, tf, written, outofspace, raised, scen>>

\* Lines 459-460: the answer is no path; the prompt is shown again.
PromptInvalid ==
  /\ pc = "prompt"
  /\ UNCHANGED vars

\* ------------------------------------------------------ environment
\* The process is killed (power loss, SIGKILL) between two steps.
Kill ==
  /\ pc # "idle"
  /\ Exit("killed")
  /\ UNCHANGED persistent

\* Between two runs a source file is rewritten, shorter than it was.
ModifySource(f, n) ==
  /\ pc = "idle"
  /\ 0 < runs /\ runs < MaxRuns
  /\ n < srcSize[f]
  /\ srcSize' = [srcSize EXCEPT ![f] = n]
  /\ UNCHANGED <<cap, dst, catalog, bksets, fts, log, nUuid, runs, process>>

\* Storage.init called on its own while no backup runs: storage-init calls
\* it with the defaults (reuse=True, exists=False), storage-ls and
\* storage-info with exists=True; reuse=False is the other value of the
\* parameter.
InitVolume(v, dirpath, reuse, exists) ==
  LET r == Storage_init(catalog[v], dirpath, reuse, exists)
  IN  /\ pc = "idle"
      /\ catalog' = [catalog EXCEPT ![v] = r.catalog]
      /\ outcome' = IF r.raised = "none" THEN "initialised" ELSE r.raised
      /\ UNCHANGED <<srcSize, cap, dst, bksets, fts, log, nUuid, runs, pc,
                     storages, cur_storage, dbOpen, cur_bk_set, walk, idx,
                     fpath, tf, written, outofspace, raised, supplied, scen>>

\* The same with storage.save() of line 209 raising "database or disk is
\* full": the root is not re-bound.
InitVolumeDbFull(v) ==
  /\ pc = "idle"
  /\ catalog[v] # <<>>
  /\ MayBeFull(v)
  /\ outcome' = "OperationalError"
  /\ UNCHANGED <<persistent, pc, storages, cur_storage, dbOpen, cur_bk_set,
                 walk, idx, fpath, tf, written, outofspace, raised, supplied,
                 scen>>

Start ==
  \E vols \in VolLists :
    \/ \E w \in Walks : StartNew(vols, w)
    \/ \E w \in Walks : StartResume(vols, w)
    \/ StartNotFound(vols)
    \/ StartDbFull(vols)

Next ==
  \/ Start
  \/ WalkSkip
  \/ WalkPick
  \/ Complete
  \/ CompleteDbFull
  \/ backup_file
  \/ ReturnOutOfSpace
  \/ ReturnLogged
  \/ ReturnNothing
  \/ get_next_storage
  \/ get_next_storage_dbfull
  \/ get_next_storage_none
  \/ PromptStop
  \/ \E v \in Vols : PromptStorage(v)
  \/ PromptInvalid
  \/ Kill
  \/ \E f \in Files, n \in 1..MaxSize : ModifySource(f, n)

Spec == Init /\ [][Next]_vars

\* The runs in which nothing goes wrong but volumes filling up: no kill, no
\* I/O error other than out of space, no source rewritten.  (Without those
\* no run meets a complete unlogged destination or comes back from
\* backup_file with nothing.)
NominalNext ==
  \/ Start
  \/ WalkSkip
  \/ WalkPick
  \/ Complete
  \/ CompleteDbFull
  \/ backup_file_phase1
  \/ backup_file_phase1_dbfull
  \/ backup_file_open
  \/ backup_file_open_nospace
  \/ backup_file_copy
  \/ backup_file_copy_nospace
  \/ backup_file_phase2
  \/ backup_file_phase2_dbfull
  \/ ReturnOutOfSpace
  \/ ReturnLogged
  \/ get_next_storage
  \/ get_next_storage_dbfull
  \/ get_next_storage_none
  \/ PromptStop
  \/ \E v \in Vols : PromptStorage(v)
  \/ PromptInvalid

Nominal == Init /\ [][NominalNext]_vars

\* The process of a run takes its next step as long as it has one, and the
\* operator at the prompt types STOP or the path of a volume in the end
\* (click.prompt returns).  Nobody has to start a run.
Engine ==
  \/ WalkSkip
  \/ WalkPick
  \/ Complete
  \/ CompleteDbFull
  \/ backup_file_phase1
  \/ backup_file_phase1_dbfull
  \/ backup_file_open
  \/ backup_file_open_nospace
  \/ backup_file_copy
  \/ backup_file_copy_nospace
  \/ backup_file_phase2
  \/ backup_file_phase2_dbfull
  \/ ReturnOutOfSpace
  \/ ReturnLogged
  \/ get_next_storage
  \/ get_next_storage_dbfull
  \/ get_next_storage_none

Operator ==
  \/ PromptStop
  \/ \E v \in Vols : PromptStorage(v)

Fair == Nominal /\ WF_vars(Engine) /\ WF_vars(Operator)

\* The same runs, with the storage commands between them.
CommandsNext ==
  \/ NominalNext
  \/ \E v \in Vols, reuse \in BOOLEAN, exists \in BOOLEAN :
       \E dirpath \in PathsOf(v) : InitVolume(v, dirpath, reuse, exists)
  \/ \E v \in Vols : InitVolumeDbFull(v)

Commands == Init /\ [][CommandsNext]_vars

\* Every destination file has a row: phase 1 comes before the file, and
\* the finally block never deletes a row and leaves its file.
TypeOK ==
  /\ pc \in {"idle", "walk", "call", "open", "copy", "ret", "rotate", "prompt"}
  /\ \A v \in Vols : Free(v) >= 0
  /\ \A v \in Vols : \A f \in Files : dst[v][f].exists => FirstRow(v, f) # 0

\* ------------------------------------------------------------ claims
Entries == {log.entries[i] : i \in 1..Len(log.entries)}
Rows(v) == {fts[v][i] : i \in 1..Len(fts[v])}
BkRows == UNION {{bksets[v][i] : i \in 1..Len(bksets[v])} : v \in Vols}
Running == pc # "idle"

\* C1: every RunLog entry refers to a destination file whose byte count is
\* the recorded source size, and no entry carries the sentinel hash.
C1_NoPartialRecords ==
  \A e \in Entries :
    /\ dst[e.storage_uuid][e.source_path].exists
    /\ dst[e.storage_uuid][e.source_path].size = e.size
    /\ e.sha256hash # Sentinel

\* C2: an error in backup_file that is not an out-of-space signature leaves
\* backup_file and aborts the run: no transaction is returned, nothing is
\* logged for the file, and the walk does not go on.
C2_ErrorAborts ==
  [][(pc = "ret" /\ raised # "none")
       => (tf = 0 /\ log' = log /\ pc' = "idle")]_vars

\* C4: every FileTransaction with a non-sentinel hash has a destination
\* file of the recorded size, and every return of backup_file with a
\* transaction (not OutOfSpace) leaves the destination there, of the
\* source's size, with a non-sentinel hash in the returned row.
C4_SizeInvariant ==
  /\ \A v \in Vols : \A r \in Rows(v) :
       r.sha256hash # Sentinel =>
         /\ dst[v][r.source_path].exists
         /\ dst[v][r.source_path].size = r.size
  /\ (pc = "ret" /\ ~outofspace /\ tf # 0) =>
       /\ dst[cur_storage][fpath].exists
       /\ is_same_size(cur_storage, fpath)
       /\ fts[cur_storage][tf].sha256hash # Sentinel

\* C5: the BackupSet rows of a lineage carry the sequence numbers 0..N-1,
\* each once.
C5_LineageMonotone ==
  \A u \in {r.uuid : r \in BkRows} :
    LET pos == UNION {{<<v, i>> : i \in {j \in 1..Len(bksets[v]) :
                                            bksets[v][j].uuid = u}} :
                      v \in Vols}
    IN  /\ \A p \in pos, q \in pos :
          p # q => bksets[p[1]][p[2]].sequence_number
                     # bksets[q[1]][q[2]].sequence_number
        /\ \A p \in pos :
             bksets[p[1]][p[2]].sequence_number < Cardinality(pos)

\* C6: at most one BackupSet row of the lineage is final, and it is the
\* row with the highest sequence_number.
C6_OnlyLastFinal ==
  \A v \in Vols : \A i \in 1..Len(bksets[v]) :
    bksets[v][i].is_final =>
      \A w \in Vols : \A j \in 1..Len(bksets[w]) :
        (<<w, j>> # <<v, i>> /\ bksets[w][j].uuid = bksets[v][i].uuid) =>
          /\ ~bksets[w][j].is_final
          /\ bksets[w][j].sequence_number < bksets[v][i].sequence_number

\* C3: a run on volume A then volume B meets a file that does not fit in
\* what is left of A and fits on B; when the run ends, B's catalog holds
\* exactly one FileTransaction for the file, and A holds neither a
\* destination nor a row for it.
C3_RotationCorrect ==
  [][(Running /\ pc' = "idle" /\ outcome' # "killed" /\ scen # NoScen)
       => /\ Cardinality({i \in 1..Len(fts'[scen.to]) :
                            fts'[scen.to][i].source_path = scen.file}) = 1
          /\ \A i \in 1..Len(fts'[scen.from]) :
               fts'[scen.from][i].source_path # scen.file
          /\ ~dst'[scen.from][scen.file].exists]_vars

\* C9: when the operator answers STOP, no catalog holds a row with the
\* sentinel hash or a row for the file in flight, no destination of the
\* file in flight is left, and every path the walk has passed is logged.
C9_StopConsistent ==
  [][(pc = "prompt" /\ outcome' = "suspended")
       => /\ \A v \in Vols : \A r \in Rows(v)' :
               r.sha256hash # Sentinel /\ r.source_path # fpath
          /\ \A v \in Vols : ~dst'[v][fpath].exists
          /\ \A i \in 1..(idx - 1) :
               \E e \in Entries' : e.source_path = walk[i]]_vars

\* C10: while volumes are queued, no run ends with an exception that
\* comes from a full volume: not the OperationalError of a catalog write,
\* nor the FileNotFoundError or AttributeError of the out-of-space cleanup.
C10_OutOfSpaceRecoverable ==
  [][(Running /\ storages # <<>>)
       => outcome' \notin {"OperationalError", "FileNotFoundError",
                           "AttributeError"}]_vars

\* C7: a path that is in the RunLog is never passed to backup_file, a
\* completed run has logged every file, and once every file is logged no
\* run adds or removes a FileTransaction, touches a destination or
\* changes the RunLog.
C7_IdempotentResume ==
  /\ [](pc \in {"call", "open", "copy", "ret", "rotate", "prompt"}
          => ~has_entry(fpath))
  /\ [](outcome = "completed" => \A f \in Files : has_entry(f))
  /\ [][(\A f \in Files : has_entry(f))
          => (fts' = fts /\ dst' = dst /\ log' = log)]_vars

\* The second run, after a completed one, at the end of its walk.
C7_Witness ==
  /\ runs = 2
  /\ pc = "walk"
  /\ idx > Len(walk)
  /\ \E r \in BkRows : r.is_final
  /\ \A f \in Files : has_entry(f)

\* The position at which the walk first yields f.
FirstPos(f) == CHOOSE i \in 1..Len(walk) :
                 walk[i] = f /\ \A j \in 1..(i - 1) : walk[j] # f

\* C8: after OutOfSpace the next call of backup_file is for the same file
\* on the volume just opened; the path in hand changes only when it is
\* logged or the run ends; every path the walk has passed is logged, and
\* the entries are in walk order.
C8_RotationKeepsOrder ==
  /\ [](Running => \A i \in 1..(idx - 1) : has_entry(walk[i]))
  /\ [](Running => \A i \in 1..Len(log.entries) : \A j \in 1..Len(log.entries) :
          i < j => FirstPos(log.entries[i].source_path)
                     < FirstPos(log.entries[j].source_path))
  /\ [][(fpath # 0 /\ fpath' # fpath)
          => \/ pc' = "idle"
             \/ \E e \in Entries' : e.source_path = fpath]_vars
  /\ [][((pc = "ret" /\ outofspace) \/ pc \in {"rotate", "prompt"})
          => /\ pc' \in {"rotate", "prompt", "call", "idle"}
             /\ pc' = "call" => /\ fpath' = fpath
                                /\ cur_storage' = Head(storages)
                                /\ dbOpen' = cur_storage']_vars

\* The file that did not fit on the first volume is logged on the second.
C8_Witness ==
  /\ Running
  /\ scen # NoScen
  /\ \E e \in Entries :
       e.source_path = scen.file /\ e.storage_uuid = scen.to

\* C11: when the phase-1 insert raises "database or disk is full" with no
\* destination there, backup_file returns (None, out of space) without
\* raising, with the rows and the destinations as they were, and the engine
\* goes on to rotate.
C11_Phase1FullIsOutOfSpace ==
  [][(backup_file_phase1_dbfull /\ ~dst[cur_storage][fpath].exists)
       => /\ pc' = "ret"
          /\ tf' = 0
          /\ outofspace'
          /\ fts' = fts
          /\ dst' = dst]_vars

\* C12: a run resumed from the RunLog of a suspended run enters the walk
\* with the BackupSet of the log's lineage and makes no new lineage,
\* whichever volume it is given first.
C12_ResumeOnSwappedVolumes ==
  [][(pc = "idle" /\ outcome = "suspended" /\ runs' = runs + 1)
       => /\ outcome' # "DoesNotExist"
          /\ pc' = "walk" => /\ cur_bk_set'.uuid = log.backup_set_uuid
                             /\ log'.backup_set_uuid = log.backup_set_uuid
                             /\ nUuid' = nUuid]_vars

\* C13: an entry of the RunLog is never changed or removed -- the log only
\* grows at its end -- and no source path has two entries.
C13_LogAppendOnly ==
  /\ [](\A i \in 1..Len(log.entries) : \A j \in 1..Len(log.entries) :
          i # j => log.entries[i].source_path # log.entries[j].source_path)
  /\ [][/\ Len(log'.entries) >= Len(log.entries)
        /\ SubSeq(log'.entries, 1, Len(log.entries)) = log.entries
        /\ log'.uuid # log.uuid => log = NoLog]_vars

\* A resumed run, after a rotation in either run, walks onto the path the
\* overlapping root yields a second time, with every file logged.
C13_Witness ==
  /\ runs = 2
  /\ pc = "walk"
  /\ idx = Len(walk)
  /\ has_entry(walk[idx])
  /\ Len(log.entries) = NFiles
  /\ \E e \in Entries : e.storage_uuid # log.entries[1].storage_uuid

\* C14: Storage.init by precondition.  With a catalog and reuse false it
\* raises and changes nothing; with none and exists true it raises and
\* creates none; with none and exists false it creates one catalog whose
\* uuid no catalog has; with a catalog and reuse true it changes the root
\* of the Storage row to the path given and nothing else.  No root ever
\* holds two catalogs, and the uuid of a volume never changes.
C14_StorageInit ==
  /\ [][\A v \in Vols, reuse \in BOOLEAN, exists \in BOOLEAN :
          \A dirpath \in PathsOf(v) :
            InitVolume(v, dirpath, reuse, exists) =>
              /\ (catalog[v] # <<>> /\ ~reuse) =>
                   /\ outcome' = "Storage already initialised"
                   /\ catalog' = catalog
              /\ (catalog[v] = <<>> /\ exists) =>
                   /\ outcome' = "Storage not found"
                   /\ catalog' = catalog
              /\ (catalog[v] = <<>> /\ ~exists) =>
                   /\ outcome' = "initialised"
                   /\ Len(catalog'[v]) = 1
                   /\ \A w \in Vols : \A i \in 1..Len(catalog[w]) :
                        catalog[w][i].uuid # catalog'[v][1].uuid
                   /\ catalog'[v][1].root = dirpath
                   /\ \A w \in Vols \ {v} : catalog'[w] = catalog[w]
              /\ (catalog[v] # <<>> /\ reuse) =>
                   /\ outcome' = "initialised"
                   /\ catalog' = [catalog EXCEPT ![v][1].root = dirpath]]_vars
  /\ [](\A v \in Vols : Len(catalog[v]) <= 1)
  /\ [][\A v \in Vols : catalog[v] # <<>> =>
          /\ catalog'[v] # <<>>
          /\ catalog'[v][1].uuid = catalog[v][1].uuid]_vars

\* Both volumes hold a catalog, one of them re-bound to its other path
\* after a backup run has used it; the last call was refused.
C14_Witness ==
  /\ runs > 0
  /\ \A v \in Vols : Len(catalog[v]) = 1
  /\ \E v \in Vols : catalog[v][1].root = v + NVols /\ bksets[v] # <<>>
  /\ outcome \in {"Storage already initialised", "Storage not found"}

\* C15: when the destination is there with the source's size, backup_file
\* copies nothing and leaves every destination as it is, and writes one
\* new FileTransaction: it references the current BackupSet and carries
\* the hash of an earlier row for that destination, never the sentinel.
C15_AlreadyPresent ==
  [][(/\ pc = "call"
      /\ dst[cur_storage][fpath].exists
      /\ is_same_size(cur_storage, fpath)
      /\ pc' = "ret" /\ ~outofspace' /\ raised' = "none")
       => /\ dst' = dst
          /\ \A w \in Vols \ {cur_storage} : fts'[w] = fts[w]
          /\ Len(fts'[cur_storage]) = Len(fts[cur_storage]) + 1
          /\ SubSeq(fts'[cur_storage], 1, Len(fts[cur_storage]))
               = fts[cur_storage]
          /\ tf' = Len(fts'[cur_storage])
          /\ fts'[cur_storage][tf'].dest_path = DstPath(cur_storage, fpath)
          /\ fts'[cur_storage][tf'].backup_set = cur_bk_set.id
          /\ \E r \in Rows(cur_storage) :
               /\ r.dest_path = DstPath(cur_storage, fpath)
               /\ r.sha256hash = fts'[cur_storage][tf'].sha256hash
          /\ fts'[cur_storage][tf'].sha256hash # Sentinel]_vars

\* C16: the catalog of the exhausted volume is closed before the next one
\* is opened -- the open catalog never changes from one volume straight to
\* another -- and no catalog is open while the engine looks for the next
\* volume, waits at the prompt, or has exited.
C16_OneCatalogOpen ==
  /\ [](pc \in {"rotate", "prompt", "idle"} => dbOpen = 0)
  /\ [](dbOpen # 0 => dbOpen = cur_storage)
  /\ [][dbOpen' # dbOpen => (dbOpen = 0 \/ dbOpen' = 0)]_vars
  /\ [][(pc = "prompt" /\ pc' = "idle") => dbOpen' = 0]_vars

\* At the prompt after the second of two volumes ran out of space.
C16_Witness ==
  /\ pc = "prompt"
  /\ storages = <<>>
  /\ \A v \in Vols : bksets[v] # <<>>
  /\ \E v \in Vols : \E i \in 1..Len(bksets[v]) :
       bksets[v][i].sequence_number = 1

\* C17: a backup_file call that returns OutOfSpace removes only what it
\* created.  Returning from its first statement it has created nothing: the
\* destinations and the rows are as they were.  Returning from the copy it
\* has created the phase-1 row tf: every other row is still there.
C17_OutOfSpaceFrame ==
  /\ [][(pc = "call" /\ pc' = "ret" /\ outofspace')
          => (dst' = dst /\ fts' = fts)]_vars
  /\ [][(pc \in {"open", "copy"} /\ pc' = "ret" /\ outofspace')
          => /\ \A w \in Vols \ {cur_storage} : fts'[w] = fts[w]
             /\ fts'[cur_storage] = RemoveAt(fts[cur_storage], tf)
             /\ \A w \in Vols : \A f \in Files :
                  <<w, f>> # <<cur_storage, fpath>> => dst'[w][f] = dst[w][f]]_vars

\* C18: for every RunLog entry, the catalog of the volume it names holds a
\* FileTransaction with the entry's source_path, dest_path, size and hash,
\* and the destination file is on that volume.
C18_LogCatalogAgreement ==
  \A e \in Entries :
    /\ e.dest_path = DstPath(e.storage_uuid, e.source_path)
    /\ \E r \in Rows(e.storage_uuid) :
         /\ r.source_path = e.source_path
         /\ r.dest_path = e.dest_path
         /\ r.size = e.size
         /\ r.sha256hash = e.sha256hash
    /\ dst[e.storage_uuid][e.source_path].exists

\* Every run ends.
RunEnds == Running ~> ~Running

\* A rotation takes the volume at the head of the queue and goes straight
\* back to backup_file; with the queue empty it goes to the prompt; the
\* queue grows at the prompt only.
RotationConsumes ==
  /\ [][(pc = "rotate" /\ pc' = "call")
          => (storages # <<>> /\ storages' = Tail(storages))]_vars
  /\ [][(pc = "rotate" /\ storages = <<>>) => pc' = "prompt"]_vars
  /\ [][(Running /\ Len(storages') > Len(storages)) => pc = "prompt"]_vars

\* C19: every run comes to an end, and the end is Completed or Suspended;
\* each out-of-space result uses up one queued volume, and with the queue
\* empty the engine is at the prompt.
C19_Terminates ==
  /\ RunEnds
  /\ [][(Running /\ ~Running')
          => outcome' \in {"completed", "suspended"}]_vars
  /\ RotationConsumes

=============================================================================
